---- MODULE Spec2Model ----
(***************************************************************************)
(* Model of the slrun function runtime.                                    *)
(*                                                                         *)
(* Runtime (internal/slrun/runtime.go): the function table, the container  *)
(* engine it drives through the Docker client, and the operations Start,   *)
(* Stop and CallFunctionByName.  Start and Stop are modelled at the        *)
(* granularity of the engine calls they make: every engine call is one     *)
(* step whose outcome (success or error) the engine chooses.               *)
(*                                                                         *)
(* Image builder and supervisor (BuildFunctionImage and the package-level  *)
(* Start): packaging, image removal and image build per function, then     *)
(* one reconciliation pass, the listener, and the shutdown on a signal.    *)
(*                                                                         *)
(* Specifications:                                                         *)
(*   Spec        the Runtime under a caller free to call its operations    *)
(*   SpecPasses  the Runtime under a caller that calls Start repeatedly    *)
(*   SpecBuild   BuildFunctionImage under a caller that retries builds     *)
(*   SpecSup     the supervisor from process start to its return           *)
(***************************************************************************)
EXTENDS Integers, Sequences, FiniteSets, TLC

(* ------------------------------ bounds --------------------------------- *)

\* Number of configured functions (len(r.functions)).
NumFuncs == 2
\* Number of Start/Stop calls made on the Runtime in one behaviour.
MaxCalls == 2
\* The engine's pool of ephemeral host ports: FirstPort .. FirstPort+NumPorts-1.
FirstPort == 9
NumPorts == 2
\* Number of reconciliation passes where Start is called again and again.
MaxPasses == 3
\* Number of BuildFunctionImage calls where builds are retried.
MaxBuilds == 3

Funcs == 1 .. NumFuncs
PortPool == FirstPort .. (FirstPort + NumPorts - 1)
\* Request paths handed to CallFunctionByName (opaque to the runtime).
Paths == {"/x"}

(* ------------------------- strconv.Itoa / Atoi ------------------------- *)

RECURSIVE Itoa(_)
\* strconv.Itoa for n >= 0: the decimal digits of n, most significant first.
Itoa(n) == IF n < 10 THEN <<n>> ELSE Itoa(n \div 10) \o <<n % 10>>

RECURSIVE AtoiAcc(_, _)
AtoiAcc(s, acc) ==
    IF s = <<>> THEN acc ELSE AtoiAcc(Tail(s), acc * 10 + Head(s))

\* strconv.Atoi with the error dropped (function.port, _ = strconv.Atoi(..)):
\* the empty string is a syntax error and yields 0.
Atoi(s) == IF s = <<>> THEN 0 ELSE AtoiAcc(s, 0)

(* --------------------------- function table ---------------------------- *)

\* Function.Name of the i-th configured function; names are unique.
Name(i) == "fn" \o ToString(i)

\* BuildFunctionImage: imageName := "slrun-" + function.Name
ImageName(i) == "slrun-" \o Name(i)

\* Names a caller may pass to CallFunctionByName: every configured name and
\* one that is not configured.
CallNames == {Name(i) : i \in Funcs} \cup {"unknown-name"}

\* The zero value of a container id (Go's empty string).
NoId == 0

\* A Function as handed to NewRuntime: image built, runtime fields zero.
NewFunction(i) ==
    [Name |-> Name(i), imageName |-> ImageName(i),
     containerId |-> NoId, running |-> FALSE, port |-> 0]

VARIABLES
    functions,   \* r.functions: Funcs -> Function record
    containers,  \* the engine: sequence of containers, a container's id is its index
    pc,          \* position of the caller inside Start / Stop, "idle" between calls
    idx,         \* index of the loop's current function
    respId,      \* resp.ID of the container created by the running startFunction
    log,         \* engine operations issued by the current (or last) Start/Stop call
    calls,       \* the completed Start/Stop calls, in order, with their results
    before,      \* the engine's containers when the current (or last) call began
    last,        \* result of the last completed call
    requests,    \* HTTP requests issued by the last CallFunctionByName
    images,      \* the engine's image store: the tags that name an image
    sup          \* the supervisor (package-level Start) and the image builder

\* What no operation of the Runtime touches.
env == <<images, sup>>

vars == <<functions, containers, pc, idx, respId, log, calls, before, last, requests,
          images, sup>>

NoResult == [op |-> "none", name |-> "", err |-> "nil", body |-> <<>>]

\* The tags the image builder gives the configured functions' images.
AllImages == {ImageName(i) : i \in Funcs}

\* The supervisor's state where the Runtime is driven directly by its caller:
\* no supervisor, no build in progress.
\*   pc        position of the supervisor / of BuildFunctionImage
\*   i         the function being built
\*   ret       what the last BuildFunctionImage returned
\*   err       what the supervisor's Start returned
\*   listener  "none", "listening" or "closed"
\*   blog      the engine's image operations of the current (or last) build
\*   builds    number of BuildFunctionImage calls that have returned
\*   built     the functions whose image the engine has built successfully
\*   failed    the functions whose build has failed
\*   was       the function's imageName when the current (or last) build began
SupNone ==
    [pc |-> "none", i |-> 0, ret |-> "nil", err |-> "nil", listener |-> "none",
     blog |-> <<>>, builds |-> 0, built |-> {}, failed |-> {}, was |-> ""]

\* NewRuntime: the function table as given, nothing started, an engine that
\* holds no container of this runtime.
Init ==
    /\ functions = [i \in Funcs |-> NewFunction(i)]
    /\ containers = <<>>
    /\ pc = "idle"
    /\ idx = 0
    /\ respId = NoId
    /\ log = <<>>
    /\ calls = <<>>
    /\ before = <<>>
    /\ last = NoResult
    /\ requests = <<>>
    /\ images = AllImages
    /\ sup = SupNone

(* ------------------------------ engine --------------------------------- *)

ContainerIds == 1 .. Len(containers)

Live(c) == c \in ContainerIds /\ containers[c].state = "running"

LiveIds == {c \in ContainerIds : Live(c)}

\* Host ports bound by live containers.
BoundPorts == {Atoi(containers[c].hostPort) : c \in LiveIds}

RECURSIVE ListFrom(_)
\* ContainerList with default options: the running containers, newest first.
ListFrom(c) ==
    IF c = 0 THEN <<>>
    ELSE (IF Live(c) THEN <<[ID |-> c, Image |-> containers[c].image]>> ELSE <<>>)
         \o ListFrom(c - 1)

ContainerList == ListFrom(Len(containers))

\* The pass (1-based index among the Start/Stop calls) now running.
ThisPass == Len(calls) + 1

\* Append one engine operation to the log of the current call.
Logged(op, fn, id, ok) == Append(log, [op |-> op, fn |-> fn, id |-> id, ok |-> ok])

\* A call returns: record its result and go back to idle.
Return(op, err) ==
    /\ pc' = "idle"
    /\ idx' = 0
    /\ respId' = NoId
    /\ calls' = Append(calls, [op |-> op, err |-> err])
    /\ last' = [op |-> op, name |-> "", err |-> err, body |-> <<>>]

(* ------------------------ updateFunctionStatus ------------------------- *)

RECURSIVE ScanSummary(_, _)
\* The inner loop of updateFunctionStatus: every listed container whose
\* image is the function's image overwrites containerId and sets running.
ScanSummary(fun, summary) ==
    IF summary = <<>> THEN fun
    ELSE ScanSummary(
            IF Head(summary).Image = fun.imageName
            THEN [fun EXCEPT !.containerId = Head(summary).ID, !.running = TRUE]
            ELSE fun,
            Tail(summary))

\* A slip of updateFunctionStatus: the container is found, its id recorded,
\* but the function is not marked running.
RECURSIVE ScanSummaryNoMark(_, _)
ScanSummaryNoMark(fun, summary) ==
    IF summary = <<>> THEN fun
    ELSE ScanSummaryNoMark(
            IF Head(summary).Image = fun.imageName
            THEN [fun EXCEPT !.containerId = Head(summary).ID]
            ELSE fun,
            Tail(summary))

updateFunctionStatusNoMark(fs, summary) ==
    [i \in Funcs |-> ScanSummaryNoMark(fs[i], summary)]

\* updateFunctionStatus on a successful ContainerList.
updateFunctionStatus(fs, summary) ==
    [i \in Funcs |-> ScanSummary(fs[i], summary)]

(* ------------------------------- Start --------------------------------- *)

\* Where a loop over r.functions goes after function i: the next function,
\* or, past the last one, what follows the loop.
AfterLoop(i, loopPc, nextPc) ==
    IF i < NumFuncs
    THEN /\ pc' = loopPc
         /\ idx' = i + 1
    ELSE /\ pc' = nextPc
         /\ idx' = 1

\* Runtime.Start is called.
Start ==
    /\ pc = "idle"
    /\ Len(calls) < MaxCalls
    /\ pc' = "Start_observe"
    /\ idx' = 0
    /\ log' = <<>>
    /\ before' = containers
    /\ last' = NoResult
    /\ requests' = <<>>
    /\ UNCHANGED <<functions, containers, respId, calls>>
    /\ UNCHANGED env

\* A slip of Start: after observing, the pass goes straight to starting the
\* functions, without removing the running containers.
UpdateFunctionStatusOkNoStop ==
    /\ pc = "Start_observe"
    /\ functions' = updateFunctionStatus(functions, ContainerList)
    /\ log' = Logged("list", 0, NoId, TRUE)
    /\ pc' = "Start_create"
    /\ idx' = 1
    /\ UNCHANGED <<containers, respId, calls, before, last, requests>>
    /\ UNCHANGED env

\* updateFunctionStatus: ContainerList succeeds.
UpdateFunctionStatusOk ==
    /\ pc = "Start_observe"
    /\ functions' = updateFunctionStatus(functions, ContainerList)
    /\ log' = Logged("list", 0, NoId, TRUE)
    /\ pc' = "Start_stop"
    /\ idx' = 1
    /\ UNCHANGED <<containers, respId, calls, before, last, requests>>
    /\ UNCHANGED env

\* updateFunctionStatus: ContainerList fails; Start returns the error.
UpdateFunctionStatusErr ==
    /\ pc = "Start_observe"
    /\ log' = Logged("list", 0, NoId, FALSE)
    /\ Return("Start", "engine")
    /\ UNCHANGED <<functions, containers, before, requests>>
    /\ UNCHANGED env

\* ContainerStop on the engine: an empty id is refused; a running container
\* is stopped; a container that is not running is left as it is.
Stopped(id) ==
    IF Live(id) THEN [containers EXCEPT ![id].state = "exited"] ELSE containers

\* Whether ContainerStop of this id can succeed.
CanStop(id) == id \in ContainerIds

\* "Remove running containers": the function is not marked running.
StartStopSkip ==
    /\ pc = "Start_stop"
    /\ ~functions[idx].running
    /\ AfterLoop(idx, "Start_stop", "Start_create")
    /\ UNCHANGED <<functions, containers, respId, log, calls, before, last, requests>>
    /\ UNCHANGED env

\* "Remove running containers": stopFunction succeeds.
StartStopOk ==
    /\ pc = "Start_stop"
    /\ functions[idx].running
    /\ CanStop(functions[idx].containerId)
    /\ containers' = Stopped(functions[idx].containerId)
    /\ log' = Logged("stop", idx, functions[idx].containerId, TRUE)
    /\ AfterLoop(idx, "Start_stop", "Start_create")
    /\ UNCHANGED <<functions, respId, calls, before, last, requests>>
    /\ UNCHANGED env

\* "Remove running containers": stopFunction fails; Start returns the error.
StartStopErr ==
    /\ pc = "Start_stop"
    /\ functions[idx].running
    /\ log' = Logged("stop", idx, functions[idx].containerId, FALSE)
    /\ Return("Start", "engine")
    /\ UNCHANGED <<functions, containers, before, requests>>
    /\ UNCHANGED env

(* ---------------------------- startFunction ---------------------------- *)

\* startFunction: ContainerCreate succeeds; the engine creates a container
\* only from an image its store holds.
ContainerCreateOk ==
    /\ pc = "Start_create"
    /\ functions[idx].imageName \in images
    /\ containers' = Append(containers,
          [image |-> functions[idx].imageName, state |-> "created",
           hostPort |-> <<>>, pass |-> ThisPass])
    /\ respId' = Len(containers) + 1
    /\ log' = Logged("create", idx, Len(containers) + 1, TRUE)
    /\ pc' = "Start_start"
    /\ UNCHANGED <<functions, idx, calls, before, last, requests>>
    /\ UNCHANGED env

\* A slip of Start: a failed start of one function is logged and the loop
\* goes on to the next function.
ContainerCreateErrContinue ==
    /\ pc = "Start_create"
    /\ log' = Logged("create", idx, NoId, FALSE)
    /\ IF idx < NumFuncs
       THEN /\ pc' = "Start_create"
            /\ idx' = idx + 1
            /\ UNCHANGED <<respId, calls, last>>
       ELSE Return("Start", "engine")
    /\ UNCHANGED <<functions, containers, before, requests>>
    /\ UNCHANGED env

\* startFunction: ContainerCreate fails; Start returns the error.
ContainerCreateErr ==
    /\ pc = "Start_create"
    /\ log' = Logged("create", idx, NoId, FALSE)
    /\ Return("Start", "engine")
    /\ UNCHANGED <<functions, containers, before, requests>>
    /\ UNCHANGED env

\* startFunction: ContainerStart succeeds; the engine binds container port
\* 80/tcp to a free host port of its choice on 127.0.0.1.
ContainerStartOk ==
    /\ pc = "Start_start"
    /\ \E p \in PortPool \ BoundPorts :
          containers' = [containers EXCEPT ![respId].state = "running",
                                           ![respId].hostPort = Itoa(p)]
    /\ log' = Logged("start", idx, respId, TRUE)
    /\ pc' = "Start_inspect"
    /\ UNCHANGED <<functions, idx, respId, calls, before, last, requests>>
    /\ UNCHANGED env

\* startFunction: ContainerStart fails; Start returns the error.
ContainerStartErr ==
    /\ pc = "Start_start"
    /\ log' = Logged("start", idx, respId, FALSE)
    /\ Return("Start", "engine")
    /\ UNCHANGED <<functions, containers, before, requests>>
    /\ UNCHANGED env

\* A slip of startFunction: the port is recorded, the container id is not.
SetMetadataNoId(fun, id, hostPort) ==
    [fun EXCEPT !.port = Atoi(hostPort)]

\* startFunction's last two assignments: function.containerId = resp.ID and
\* function.port, _ = strconv.Atoi(hostPort).
SetMetadata(fun, id, hostPort) ==
    [fun EXCEPT !.containerId = id, !.port = Atoi(hostPort)]

\* startFunction: ContainerInspect succeeds, the metadata is set; after the
\* last function Start returns nil.
ContainerInspectOk ==
    /\ pc = "Start_inspect"
    /\ functions' = [functions EXCEPT
          ![idx] = SetMetadata(@, respId, containers[respId].hostPort)]
    /\ log' = Logged("inspect", idx, respId, TRUE)
    /\ IF idx < NumFuncs
       THEN /\ pc' = "Start_create"
            /\ idx' = idx + 1
            /\ respId' = NoId
            /\ UNCHANGED <<calls, last>>
       ELSE Return("Start", "nil")
    /\ UNCHANGED <<containers, before, requests>>
    /\ UNCHANGED env

\* startFunction: ContainerInspect fails; Start returns the error.
ContainerInspectErr ==
    /\ pc = "Start_inspect"
    /\ log' = Logged("inspect", idx, respId, FALSE)
    /\ Return("Start", "engine")
    /\ UNCHANGED <<functions, containers, before, requests>>
    /\ UNCHANGED env

(* -------------------------------- Stop --------------------------------- *)

\* Runtime.Stop is called.
Stop ==
    /\ pc = "idle"
    /\ Len(calls) < MaxCalls
    /\ pc' = "Stop_loop"
    /\ idx' = 1
    /\ log' = <<>>
    /\ before' = containers
    /\ last' = NoResult
    /\ requests' = <<>>
    /\ UNCHANGED <<functions, containers, respId, calls>>
    /\ UNCHANGED env

\* Stop: stopFunction of the current function succeeds; after the last
\* function Stop returns nil.  There is no test of fun.running.
StopOk ==
    /\ pc = "Stop_loop"
    /\ CanStop(functions[idx].containerId)
    /\ containers' = Stopped(functions[idx].containerId)
    /\ log' = Logged("stop", idx, functions[idx].containerId, TRUE)
    /\ IF idx < NumFuncs
       THEN /\ pc' = "Stop_loop"
            /\ idx' = idx + 1
            /\ UNCHANGED <<respId, calls, last>>
       ELSE Return("Stop", "nil")
    /\ UNCHANGED <<functions, before, requests>>
    /\ UNCHANGED env

\* A slip of Stop: a failed stop is logged and the loop goes on.
StopErrContinue ==
    /\ pc = "Stop_loop"
    /\ log' = Logged("stop", idx, functions[idx].containerId, FALSE)
    /\ IF idx < NumFuncs
       THEN /\ pc' = "Stop_loop"
            /\ idx' = idx + 1
            /\ UNCHANGED <<respId, calls, last>>
       ELSE Return("Stop", "engine")
    /\ UNCHANGED <<functions, containers, before, requests>>
    /\ UNCHANGED env

\* Stop: stopFunction of the current function fails (always so for an empty
\* containerId); Stop returns the error.
StopErr ==
    /\ pc = "Stop_loop"
    /\ log' = Logged("stop", idx, functions[idx].containerId, FALSE)
    /\ Return("Stop", "engine")
    /\ UNCHANGED <<functions, containers, before, requests>>
    /\ UNCHANGED env

(* ------------------------- CallFunctionByName -------------------------- *)

\* A slip of the lookup: an unmatched name falls back to the first function.
LookupOrFirst(name) ==
    IF \E i \in Funcs : functions[i].Name = name
    THEN CHOOSE i \in Funcs :
            /\ functions[i].Name = name
            /\ \A j \in Funcs : functions[j].Name = name => i <= j
    ELSE 1

\* The loop of CallFunctionByName: the first function with that name, 0 if
\* there is none.
Lookup(name) ==
    IF \E i \in Funcs : functions[i].Name = name
    THEN CHOOSE i \in Funcs :
            /\ functions[i].Name = name
            /\ \A j \in Funcs : functions[j].Name = name => i <= j
    ELSE 0

\* callFunction's request: GET http://127.0.0.1:<Itoa(port)><path>.
Request(fun, path) == [port |-> Itoa(fun.port), path |-> path]

\* The live containers whose published host port a request reaches.
Serving(req) == {c \in LiveIds : containers[c].hostPort = req.port}

\* CallFunctionByName: no function has the name.
CallFunctionByNameNotFound(name, path) ==
    /\ pc = "idle"
    /\ Lookup(name) = 0
    /\ last' = [op |-> "Call", name |-> name, err |-> "notfound", body |-> <<>>]
    /\ requests' = <<>>
    /\ UNCHANGED <<functions, containers, pc, idx, respId, log, calls, before>>
    /\ UNCHANGED env

\* callFunction: the request is answered by the container published on the
\* function's port, and the body is returned.
callFunctionOk(name, path) ==
    /\ pc = "idle"
    /\ Lookup(name) # 0
    /\ LET req == Request(functions[Lookup(name)], path) IN
          /\ requests' = <<req>>
          /\ \E c \in Serving(req) :
                last' = [op |-> "Call", name |-> name, err |-> "nil", body |-> <<c, path>>]
    /\ UNCHANGED <<functions, containers, pc, idx, respId, log, calls, before>>
    /\ UNCHANGED env

\* A slip of callFunction: a function whose call failed is marked not running.
callFunctionErrMarks(name, path) ==
    /\ pc = "idle"
    /\ Lookup(name) # 0
    /\ requests' = <<Request(functions[Lookup(name)], path)>>
    /\ last' = [op |-> "Call", name |-> name, err |-> "transport", body |-> <<>>]
    /\ functions' = [functions EXCEPT ![Lookup(name)].running = FALSE]
    /\ UNCHANGED <<containers, pc, idx, respId, log, calls, before>>
    /\ UNCHANGED env

\* callFunction: http.Get or reading the body fails (always so when nothing
\* listens on the port).
callFunctionErr(name, path) ==
    /\ pc = "idle"
    /\ Lookup(name) # 0
    /\ requests' = <<Request(functions[Lookup(name)], path)>>
    /\ last' = [op |-> "Call", name |-> name, err |-> "transport", body |-> <<>>]
    /\ UNCHANGED <<functions, containers, pc, idx, respId, log, calls, before>>
    /\ UNCHANGED env

(* ---------------------------- specification ---------------------------- *)

Next ==
    \/ Start
    \/ UpdateFunctionStatusOk
    \/ UpdateFunctionStatusErr
    \/ StartStopSkip
    \/ StartStopOk
    \/ StartStopErr
    \/ ContainerCreateOk
    \/ ContainerCreateErr
    \/ ContainerStartOk
    \/ ContainerStartErr
    \/ ContainerInspectOk
    \/ ContainerInspectErr
    \/ Stop
    \/ StopOk
    \/ StopErr
    \/ \E name \in CallNames, path \in Paths :
          \/ CallFunctionByNameNotFound(name, path)
          \/ callFunctionOk(name, path)
          \/ callFunctionErr(name, path)

Spec == Init /\ [][Next]_vars

(* ------------------------ repeated reconciliation --------------------- *)

\* What entering Start or Stop does to the caller's position and to the
\* records kept of the call.
BeginCall(toPc, i) ==
    /\ pc' = toPc
    /\ idx' = i
    /\ log' = <<>>
    /\ before' = containers
    /\ last' = NoResult
    /\ requests' = <<>>
    /\ UNCHANGED <<functions, containers, respId, calls>>

\* Runtime.Start is called once more (a caller that only reconciles).
StartPass ==
    /\ pc = "idle"
    /\ Len(calls) < MaxPasses
    /\ BeginCall("Start_observe", 0)
    /\ UNCHANGED env

\* The steps of one Start pass after its entry.
PassStep ==
    \/ UpdateFunctionStatusOk
    \/ UpdateFunctionStatusErr
    \/ StartStopSkip
    \/ StartStopOk
    \/ StartStopErr
    \/ ContainerCreateOk
    \/ ContainerCreateErr
    \/ ContainerStartOk
    \/ ContainerStartErr
    \/ ContainerInspectOk
    \/ ContainerInspectErr

NextPasses == StartPass \/ PassStep

\* The Runtime under a caller that calls Start up to MaxPasses times.
SpecPasses == Init /\ [][NextPasses]_vars

(* ------------------------- BuildFunctionImage -------------------------- *)

\* A Function as ReadConfigFile yields it: name and build directory only.
ConfigFunction(i) == [NewFunction(i) EXCEPT !.imageName = ""]

\* Error texts are sequences of tokens; no error is the empty sequence.
NoErr == <<>>

\* Whether text `pat` occurs in text `msg` (strings.Contains).
Contains(msg, pat) ==
    \E off \in 0 .. Len(msg) - Len(pat) :
        \A k \in 1 .. Len(pat) : msg[off + k] = pat[k]

\* The engine's answer to removing a tag its store does not hold.
NoSuchImageErr(i) == <<"No such image: ", "slrun-", Name(i)>>

\* The engine's answer to a removal that fails for another reason.
ConflictErr(i) == <<"conflict: unable to delete ", "slrun-", Name(i)>>

\* The errors ImageRemove of function i's tag can return now.
RemoveErrs(i) ==
    {ConflictErr(i)} \cup (IF ImageName(i) \in images THEN {} ELSE {NoSuchImageErr(i)})

\* A slip of the removal's error test: every removal error is ignored.
SwallowedAny(msg) == TRUE

\* BuildFunctionImage's test of ImageRemove's error: "if image doesn't
\* exist, it's ok".
Swallowed(msg) == Contains(msg, <<"No such image: ", "slrun-">>)

\* One image operation of the engine added to the build's log.
BLogged(op, msg) == Append(sup.blog, [op |-> op, fn |-> sup.i, err |-> msg])

\* BuildFunctionImage(function i) is entered.
BeginBuild(i) ==
    sup' = [sup EXCEPT !.pc = "pkg", !.i = i, !.ret = "nil", !.blog = <<>>,
                       !.built = @ \ {i}, !.failed = @ \ {i},
                       !.was = functions[i].imageName]

\* BuildFunctionImage returns `ret`; `ok` tells whether the engine built the image.
EndBuild(ret, ok, blog) ==
    sup' = [sup EXCEPT !.pc = "build_ret", !.ret = ret, !.blog = blog,
                       !.builds = @ + 1,
                       !.built = IF ok THEN @ \cup {sup.i} ELSE @,
                       !.failed = IF ok THEN @ ELSE @ \cup {sup.i}]

\* What a step of BuildFunctionImage leaves alone besides the image store
\* and the function table.
BuildFrame == UNCHANGED <<containers, pc, idx, respId, log, calls, before, last, requests>>

\* createTarContext succeeds.
CreateTarContextOk ==
    /\ sup.pc = "pkg"
    /\ sup' = [sup EXCEPT !.pc = "remove"]
    /\ UNCHANGED <<functions, images>>
    /\ BuildFrame

\* createTarContext fails (unreadable directory, file gone mid-walk);
\* BuildFunctionImage returns the error.
CreateTarContextErr ==
    /\ sup.pc = "pkg"
    /\ EndBuild("package", FALSE, sup.blog)
    /\ UNCHANGED <<functions, images>>
    /\ BuildFrame

\* ImageRemove succeeds: the tag is gone from the store.
ImageRemoveOk ==
    /\ sup.pc = "remove"
    /\ ImageName(sup.i) \in images
    /\ images' = images \ {ImageName(sup.i)}
    /\ sup' = [sup EXCEPT !.pc = "build", !.blog = BLogged("remove", NoErr)]
    /\ UNCHANGED functions
    /\ BuildFrame

\* ImageRemove fails with an error the test lets pass; the build goes on.
ImageRemoveSwallowed ==
    /\ sup.pc = "remove"
    /\ \E msg \in RemoveErrs(sup.i) :
          /\ Swallowed(msg)
          /\ sup' = [sup EXCEPT !.pc = "build", !.blog = BLogged("remove", msg)]
    /\ UNCHANGED <<functions, images>>
    /\ BuildFrame

\* ImageRemove fails with any other error; BuildFunctionImage returns it.
ImageRemoveErr ==
    /\ sup.pc = "remove"
    /\ \E msg \in RemoveErrs(sup.i) :
          /\ ~Swallowed(msg)
          /\ EndBuild("remove", FALSE, BLogged("remove", msg))
    /\ UNCHANGED <<functions, images>>
    /\ BuildFrame

\* ImageBuild returns an error; BuildFunctionImage returns it.
ImageBuildErr ==
    /\ sup.pc = "build"
    /\ EndBuild("build", FALSE, BLogged("build", <<"build request failed">>))
    /\ UNCHANGED <<functions, images>>
    /\ BuildFrame

\* ImageBuild returns a response, the build runs while the body is drained
\* and succeeds: the tag names the new image, imageName is set.
ImageBuildOk ==
    /\ sup.pc = "build"
    /\ images' = images \cup {ImageName(sup.i)}
    /\ functions' = [functions EXCEPT ![sup.i].imageName = ImageName(sup.i)]
    /\ EndBuild("nil", TRUE, BLogged("build", NoErr))
    /\ BuildFrame

\* ImageBuild returns a response, the build runs while the body is drained
\* and fails: the failure is a message in the body, which goes to
\* io.Discard, and io.Copy's own result is dropped; imageName is set and
\* BuildFunctionImage returns nil.
ImageBuildFailsInStream ==
    /\ sup.pc = "build"
    /\ functions' = [functions EXCEPT ![sup.i].imageName = ImageName(sup.i)]
    /\ EndBuild("nil", FALSE, BLogged("build", <<"errorDetail in body">>))
    /\ UNCHANGED images
    /\ BuildFrame

\* The steps of BuildFunctionImage after its entry.
BuildStep ==
    \/ CreateTarContextOk
    \/ CreateTarContextErr
    \/ ImageRemoveOk
    \/ ImageRemoveSwallowed
    \/ ImageRemoveErr
    \/ ImageBuildErr
    \/ ImageBuildOk
    \/ ImageBuildFailsInStream

(* --------------------------- repeated builds --------------------------- *)

\* Configuration read, engine store holding any of the tags (left by an
\* earlier run), a caller about to build.
InitBuild ==
    /\ functions = [i \in Funcs |-> ConfigFunction(i)]
    /\ containers = <<>>
    /\ pc = "idle"
    /\ idx = 0
    /\ respId = NoId
    /\ log = <<>>
    /\ calls = <<>>
    /\ before = <<>>
    /\ last = NoResult
    /\ requests = <<>>
    /\ images \in SUBSET AllImages
    /\ sup = [SupNone EXCEPT !.pc = "build_idle"]

\* A caller builds (or builds again) the image of some function.
BuildCall ==
    /\ sup.pc = "build_idle"
    /\ sup.builds < MaxBuilds
    /\ \E i \in Funcs : BeginBuild(i)
    /\ UNCHANGED <<functions, images>>
    /\ BuildFrame

\* The caller has BuildFunctionImage's result.
BuildDone ==
    /\ sup.pc = "build_ret"
    /\ sup' = [sup EXCEPT !.pc = "build_idle"]
    /\ UNCHANGED <<functions, images>>
    /\ BuildFrame

NextBuild == BuildCall \/ BuildDone \/ BuildStep

\* BuildFunctionImage under a caller that builds up to MaxBuilds times.
SpecBuild == InitBuild /\ [][NextBuild]_vars

(* ----------------------------- supervisor ------------------------------ *)

\* The process has been started: nothing read yet, the engine's store
\* holding any of the tags (left by an earlier run), no container.
InitSup ==
    /\ functions = [i \in Funcs |-> ConfigFunction(i)]
    /\ containers = <<>>
    /\ pc = "idle"
    /\ idx = 0
    /\ respId = NoId
    /\ log = <<>>
    /\ calls = <<>>
    /\ before = <<>>
    /\ last = NoResult
    /\ requests = <<>>
    /\ images \in SUBSET AllImages
    /\ sup = [SupNone EXCEPT !.pc = "init"]

\* What a step of the supervisor itself leaves alone.
SupFrame ==
    UNCHANGED <<functions, images, containers, pc, idx, respId, log, calls, before,
                last, requests>>

\* The supervisor's Start returns `err` to its caller.
SupReturn(err, listener) ==
    sup' = [sup EXCEPT !.pc = "returned", !.err = err, !.listener = listener]

\* ReadConfigFile and the engine client succeed.
SupInitOk ==
    /\ sup.pc = "init"
    /\ sup' = [sup EXCEPT !.pc = "sup_build", !.i = 1]
    /\ SupFrame

\* ReadConfigFile or the engine client fails; Start returns the error.
SupInitErr ==
    /\ sup.pc = "init"
    /\ SupReturn("config", "none")
    /\ SupFrame

\* "Build function images": BuildFunctionImage of the next function.
SupBuildCall ==
    /\ sup.pc = "sup_build"
    /\ BeginBuild(sup.i)
    /\ SupFrame

\* BuildFunctionImage returned an error; Start returns it.
SupBuildFailed ==
    /\ sup.pc = "build_ret"
    /\ sup.ret # "nil"
    /\ SupReturn(sup.ret, "none")
    /\ SupFrame

\* BuildFunctionImage returned nil; on to the next function, and after the
\* last one to the runtime.
SupBuildNext ==
    /\ sup.pc = "build_ret"
    /\ sup.ret = "nil"
    /\ sup' = [sup EXCEPT !.pc = IF sup.i < NumFuncs THEN "sup_build" ELSE "new_runtime",
                          !.i = IF sup.i < NumFuncs THEN sup.i + 1 ELSE sup.i]
    /\ SupFrame

\* NewRuntime fails; Start returns the error.
SupNewRuntimeErr ==
    /\ sup.pc = "new_runtime"
    /\ SupReturn("client", "none")
    /\ SupFrame

\* NewRuntime succeeds and runtime.Start() is called.
SupRuntimeStart ==
    /\ sup.pc = "new_runtime"
    /\ pc = "idle"
    /\ BeginCall("Start_observe", 0)
    /\ sup' = [sup EXCEPT !.pc = "in_start"]
    /\ UNCHANGED images

\* runtime.Start() has returned; its result is dropped, "Runtime started"
\* is printed and the listener is started.
SupRuntimeStarted ==
    /\ sup.pc = "in_start"
    /\ pc = "idle"
    /\ sup' = [sup EXCEPT !.pc = "serving", !.listener = "listening"]
    /\ SupFrame

\* ListenAndServe fails in its goroutine: log.Fatalf ends the process.
SupListenFatal ==
    /\ sup.pc = "serving"
    /\ sup' = [sup EXCEPT !.pc = "exited", !.listener = "none"]
    /\ SupFrame

\* SIGINT or SIGTERM arrives: ctx.Done() fires.
SupSignal ==
    /\ sup.pc = "serving"
    /\ sup' = [sup EXCEPT !.pc = "shutdown"]
    /\ SupFrame

\* server.Shutdown returns nil within the grace period; runtime.Stop() is
\* called.
SupShutdownOk ==
    /\ sup.pc = "shutdown"
    /\ pc = "idle"
    /\ BeginCall("Stop_loop", 1)
    /\ sup' = [sup EXCEPT !.pc = "in_stop", !.listener = "closed"]
    /\ UNCHANGED images

\* server.Shutdown returns an error: the 5 s grace period ran out with
\* connections still open.  The listener is closed; Start returns the error.
SupShutdownErr ==
    /\ sup.pc = "shutdown"
    /\ SupReturn("shutdown", "closed")
    /\ SupFrame

\* runtime.Stop() has returned; its result is dropped and Start returns nil.
SupStopped ==
    /\ sup.pc = "in_stop"
    /\ pc = "idle"
    /\ SupReturn("nil", "closed")
    /\ SupFrame

\* The steps of the supervisor's one Start pass.  The engine holds no
\* container when it begins, so no function is observed running and the
\* stop branch of "remove running containers" is never taken.
SupPassStep ==
    \/ UpdateFunctionStatusOk
    \/ UpdateFunctionStatusErr
    \/ StartStopSkip
    \/ ContainerCreateOk
    \/ ContainerCreateErr
    \/ ContainerStartOk
    \/ ContainerStartErr
    \/ ContainerInspectOk
    \/ ContainerInspectErr

NextSup ==
    \/ SupInitOk
    \/ SupInitErr
    \/ SupBuildCall
    \/ BuildStep
    \/ SupBuildFailed
    \/ SupBuildNext
    \/ SupNewRuntimeErr
    \/ SupRuntimeStart
    \/ SupPassStep
    \/ SupRuntimeStarted
    \/ SupListenFatal
    \/ SupSignal
    \/ SupShutdownOk
    \/ SupShutdownErr
    \/ StopOk
    \/ StopErr
    \/ SupStopped

\* The supervisor: read, build every image, reconcile, serve, and on a
\* signal shut the listener and stop the containers.
SpecSup == InitSup /\ [][NextSup]_vars

(* ------------------------- vocabulary of the claims -------------------- *)

\* The last completed Start/Stop call.
LastCall == calls[Len(calls)]

\* The caller is between calls and the last Start/Stop call was `op`
\* returning `err`.
Returned(op, err) ==
    /\ pc = "idle"
    /\ calls # <<>>
    /\ LastCall = [op |-> op, err |-> err]

\* The live containers created from the image of function i.
Backing(i) == {c \in LiveIds : containers[c].image = functions[i].imageName}

\* The containers created by pass n.
CreatedBy(n) == {c \in ContainerIds : containers[c].pass = n}

\* The name of the last CallFunctionByName is that of a configured function.
CalledKnown == last.op = "Call" /\ \E i \in Funcs : functions[i].Name = last.name

\* The name of the last CallFunctionByName is no configured function's.
CalledUnknown == last.op = "Call" /\ \A i \in Funcs : functions[i].Name # last.name

\* The log is that of a Start pass, running or returned.
LogOfStart ==
    \/ pc \in {"Start_observe", "Start_stop", "Start_create", "Start_start", "Start_inspect"}
    \/ pc = "idle" /\ calls # <<>> /\ LastCall.op = "Start"

\* The log is that of a Stop call, running or returned.
LogOfStop ==
    \/ pc = "Stop_loop"
    \/ pc = "idle" /\ calls # <<>> /\ LastCall.op = "Stop"

(* -------------------------------- claims ------------------------------- *)

\* C1: after Start returns without error, every function has running = true
\* and a recorded port that is the host port of a live container of that
\* function, and no two functions have the same port.
C1_StartedRunningDistinct ==
    Returned("Start", "nil") =>
        /\ \A i \in Funcs :
              /\ functions[i].running
              /\ \E c \in Backing(i) : Atoi(containers[c].hostPort) = functions[i].port
        /\ \A i, j \in Funcs : i # j => functions[i].port # functions[j].port

\* C2: between calls, after any sequence of Start and Stop calls, a
\* function's port is defined (non-zero) if and only if it is marked running.
C2_EndpointIffRunning ==
    pc = "idle" =>
        \A i \in Funcs : (functions[i].port # 0) <=> functions[i].running

\* C3: in every state, at most one live container created from a function's
\* image exists in the engine.
C3_AtMostOneLive ==
    \A i \in Funcs : Cardinality(Backing(i)) <= 1

\* C3 witness: a pass has aborted on an engine error, and some function is
\* backed by a live container while an older container of its image has
\* been stopped.
C3_Witness ==
    /\ Returned("Start", "engine")
    /\ \E i \in Funcs : \E c \in Backing(i) : \E d \in ContainerIds :
          /\ d < c
          /\ containers[d].image = functions[i].imageName
          /\ containers[d].state = "exited"

\* Two Start calls in succession have both returned nil.
TwoStarts ==
    /\ Returned("Start", "nil")
    /\ Len(calls) >= 2
    /\ calls[Len(calls) - 1] = [op |-> "Start", err |-> "nil"]

\* C4: after two successful Start calls in succession, every container the
\* first call started has been stopped, every function (each of which the
\* first call had started) is backed by exactly one live container, that
\* container was created by the second call, and the function's containerId
\* and port are that container's.
C4_StartTwice ==
    TwoStarts =>
        /\ \A c \in CreatedBy(Len(calls) - 1) : containers[c].state = "exited"
        /\ \A i \in Funcs :
              /\ \E c \in CreatedBy(Len(calls) - 1) :
                    containers[c].image = functions[i].imageName
              /\ Cardinality(Backing(i)) = 1
              /\ \A c \in Backing(i) :
                    /\ c \in CreatedBy(Len(calls))
                    /\ functions[i].containerId = c
                    /\ functions[i].port = Atoi(containers[c].hostPort)

\* C4 witness: two successful Start calls in succession, the engine holding
\* the stopped containers of the first.
C4_Witness ==
    /\ TwoStarts
    /\ \E c \in CreatedBy(Len(calls) - 1) : containers[c].state = "exited"

\* C5: CallFunctionByName with a name that no configured function has
\* returns the not-found error and issues no request, whatever calls came
\* before.
C5_UnknownNotFound ==
    CalledUnknown => last.err = "notfound" /\ requests = <<>>

\* C5 witness: an unknown name was called after a Start that failed with
\* some container already started.
C5_Witness ==
    /\ CalledUnknown
    /\ Returned("Start", "engine")
    /\ LiveIds # {}

\* No Start call has been made on the runtime yet.
NoStartYet == \A k \in 1 .. Len(calls) : calls[k].op # "Start"

\* C6: CallFunctionByName with a configured name, before any Start, fails
\* with a not-running condition (neither not-found nor a transport failure)
\* and issues no request.
C6_NotRunningBeforeStart ==
    (CalledKnown /\ NoStartYet) => last.err = "notrunning" /\ requests = <<>>

\* A successful Start has been followed by a successful Stop.
StartedThenStopped ==
    /\ Returned("Stop", "nil")
    /\ Len(calls) >= 2
    /\ calls[Len(calls) - 1] = [op |-> "Start", err |-> "nil"]

\* C7: after a successful Start followed by a successful Stop, every
\* function is marked not running, and CallFunctionByName of a configured
\* function fails with the not-running condition and issues no request.
C7_NotRunningAfterStop ==
    StartedThenStopped =>
        /\ \A i \in Funcs : ~functions[i].running
        /\ CalledKnown => last.err = "notrunning" /\ requests = <<>>

\* The function whose engine operation failed in the logged call (0 for the
\* list), NumFuncs + 1 when no operation failed.
FailedFn ==
    IF log # <<>> /\ ~log[Len(log)].ok THEN log[Len(log)].fn ELSE NumFuncs + 1

\* C8: in a Start pass an engine operation that fails is the last engine
\* operation of the pass; Start returns an error exactly when one failed;
\* no container is created for a function after the one that failed; and
\* every container the pass had started is still running when it returns.
C8_StartAbortsAtFirstError ==
    LogOfStart =>
        /\ \A k \in 1 .. Len(log) - 1 : log[k].ok
        /\ pc = "idle" =>
              /\ (LastCall.err = "engine") <=> ~log[Len(log)].ok
              /\ \A c \in CreatedBy(Len(calls)) :
                    /\ \A i \in Funcs :
                          containers[c].image = functions[i].imageName => i <= FailedFn
                    /\ containers[c].hostPort # <<>> => Live(c)

\* C8 witness: Start has returned the error of an operation on the second
\* function, and the container it started for the first function is live.
C8_Witness ==
    /\ Returned("Start", "engine")
    /\ FailedFn = 2
    /\ \E c \in CreatedBy(Len(calls)) :
          /\ containers[c].image = functions[1].imageName
          /\ Live(c)

\* C9: every engine stop that Stop issues is for a function marked running
\* and goes against a non-empty containerId.
C9_StopOnlyRunning ==
    LogOfStop =>
        \A k \in 1 .. Len(log) :
            /\ functions[log[k].fn].running
            /\ log[k].id # NoId

\* C10: when an engine stop fails in Stop, Stop returns the error at once:
\* the functions before it were stopped in configuration order, the failed
\* stop is the last one issued, none is issued for a later function, and
\* the containers of later functions that were live when Stop began are
\* still live.
C10_StopAbortsAtFirstError ==
    LogOfStop =>
        /\ \A k \in 1 .. Len(log) : log[k].op = "stop" /\ log[k].fn = k
        /\ \A k \in 1 .. Len(log) - 1 : log[k].ok
        /\ pc = "idle" =>
              /\ (LastCall.err = "engine") <=> ~log[Len(log)].ok
              /\ LastCall.err = "engine" =>
                    \A i \in Funcs : i > Len(log) =>
                        \A c \in 1 .. Len(before) :
                            (/\ before[c].state = "running"
                             /\ before[c].image = functions[i].imageName) => Live(c)

\* C10 witness: Stop has returned the error of the first function's stop,
\* and the second function's container is still live.
C10_Witness ==
    /\ Returned("Stop", "engine")
    /\ Len(log) = 1
    /\ Backing(2) # {}

\* The observe step of a pass has just completed.
Observed == pc = "Start_stop" /\ idx = 1 /\ Len(log) = 1

\* The containers the engine's list shows for function i.
Listed(i) ==
    {k \in 1 .. Len(ContainerList) : ContainerList[k].Image = functions[i].imageName}

\* C16: right after the observe step, a function is marked running exactly
\* when the engine's list holds a container of its image, and its
\* containerId is then the id of such a container.
C16_ObserveIsExact ==
    Observed =>
        \A i \in Funcs :
            /\ functions[i].running <=> Listed(i) # {}
            /\ functions[i].running =>
                  \E k \in Listed(i) : ContainerList[k].ID = functions[i].containerId

\* The logged call has issued operation `op` for function i, with that outcome.
Did(op, i, ok) ==
    \E k \in 1 .. Len(log) : log[k].op = op /\ log[k].fn = i /\ log[k].ok = ok

\* C17: in a Start pass, a function whose observed container has been
\* stopped and that the pass has not started again (also when the pass has
\* aborted) is marked not running and has no containerId and no port.
C17_StoppedIsCleared ==
    LogOfStart =>
        \A i \in Funcs :
            (Did("stop", i, TRUE) /\ ~Did("inspect", i, TRUE)) =>
                /\ ~functions[i].running
                /\ functions[i].containerId = NoId
                /\ functions[i].port = 0

\* The containers of function i's image that were live when the call began.
LiveBefore(i) ==
    {c \in 1 .. Len(before) :
        before[c].state = "running" /\ before[c].image = functions[i].imageName}

\* C18: within one Start pass the engine operations come in this order: the
\* list; then the stops, in configuration order; then, one function at a
\* time in configuration order, create, start and inspect of the same
\* container, each function's inspect before the next function's create.
\* A container of the function that was live when the pass began has been
\* stopped before the function's new container is created.
C18_PassOrder ==
    LogOfStart =>
        /\ \A k \in 1 .. Len(log) : (log[k].op = "list") <=> (k = 1)
        /\ \A k \in 2 .. Len(log) :
              LET cur == log[k]
                  prev == log[k - 1]
              IN  /\ cur.op = "stop" =>
                        /\ prev.op \in {"list", "stop"}
                        /\ prev.op = "stop" => prev.fn < cur.fn
                  /\ cur.op = "create" =>
                        \/ cur.fn = 1 /\ prev.op \in {"list", "stop"}
                        \/ prev = [op |-> "inspect", fn |-> cur.fn - 1,
                                   id |-> prev.id, ok |-> TRUE]
                  /\ cur.op = "start" =>
                        prev = [op |-> "create", fn |-> cur.fn, id |-> cur.id, ok |-> TRUE]
                  /\ cur.op = "inspect" =>
                        prev = [op |-> "start", fn |-> cur.fn, id |-> cur.id, ok |-> TRUE]
        /\ \A i \in Funcs : \A c \in LiveBefore(i) : \A k \in 1 .. Len(log) :
              (log[k].op = "create" /\ log[k].fn = i) =>
                  \E j \in 1 .. k - 1 :
                      log[j] = [op |-> "stop", fn |-> i, id |-> c, ok |-> TRUE]

\* C18 witness: a pass that found a container of every function, stopped
\* them and started every function again has returned.
C18_Witness ==
    /\ Returned("Start", "nil")
    /\ \A i \in Funcs :
          LiveBefore(i) # {} /\ Did("stop", i, TRUE) /\ Did("inspect", i, TRUE)

\* C19: a step that completes a CallFunctionByName (found or not, answered
\* or failed in transport) leaves every field of every function as it was.
C19_CallLeavesTable ==
    [][(last'.op = "Call" /\ <<last, requests>>' # <<last, requests>>)
          => functions' = functions]_vars

\* C19 witness: a call of a started function was answered by its container,
\* and the table holds that container's id and port.
C19_Witness ==
    /\ last.op = "Call"
    /\ last.err = "nil"
    /\ \E i \in Funcs :
          /\ functions[i].Name = last.name
          /\ last.body[1] = functions[i].containerId
          /\ Live(functions[i].containerId)

\* C20: between calls every live container started by the runtime is the
\* one recorded as its function's containerId, and when Stop has returned
\* nil no container started by the runtime is live.
C20_LiveIsTracked ==
    pc = "idle" =>
        /\ \A c \in LiveIds :
              \E i \in Funcs :
                  /\ containers[c].image = functions[i].imageName
                  /\ functions[i].containerId = c
        /\ Returned("Stop", "nil") => LiveIds = {}

\* BuildFunctionImage has just returned to its caller.
BuildReturned == sup.pc = "build_ret"

\* C14: when BuildFunctionImage returns, imageName is "slrun-" + Name if
\* packaging, removal and the engine's build all succeeded (also on a retry
\* after a failure); if packaging or the engine's build failed, an error is
\* returned and imageName is what it was before the call (unset, if no
\* earlier build set it).
C14_ImageNameOnlyOnSuccess ==
    BuildReturned =>
        /\ sup.i \in sup.built =>
              /\ sup.ret = "nil"
              /\ functions[sup.i].imageName = ImageName(sup.i)
        /\ sup.i \in sup.failed =>
              /\ sup.ret # "nil"
              /\ functions[sup.i].imageName = sup.was

\* The build's log holds an operation `op` of the engine.
BDid(op) == \E k \in 1 .. Len(sup.blog) : sup.blog[k].op = op

\* C15: in BuildFunctionImage a removal that fails with "no such image" is
\* no error: the build is submitted next.  A removal that fails otherwise
\* ends the call: the error is returned, no build is submitted and
\* imageName is what it was.
C15_RemovalErrors ==
    \A k \in 1 .. Len(sup.blog) :
        LET e == sup.blog[k] IN
        (e.op = "remove" /\ e.err # NoErr) =>
            IF e.err = NoSuchImageErr(sup.i)
            THEN /\ sup.pc = "build" \/ BDid("build")
                 /\ sup.ret # "remove"
            ELSE /\ sup.pc \notin {"pkg", "remove", "build"}
                 /\ sup.ret = "remove"
                 /\ ~BDid("build")
                 /\ functions[sup.i].imageName = sup.was

\* C15 witness: in a second or later call, a build whose removal met "no
\* such image" has been submitted and has set the imageName, unset till then.
C15_Witness ==
    /\ BuildReturned
    /\ sup.builds >= 2
    /\ sup.was = ""
    /\ sup.blog # <<>>
    /\ sup.blog[1] = [op |-> "remove", fn |-> sup.i, err |-> NoSuchImageErr(sup.i)]
    /\ sup.i \in sup.built

\* C11: under the supervisor no container exists before the engine has
\* built the image of every function, every container comes from the
\* imageName of a function whose build succeeded, and once a build has
\* failed no reconciliation pass runs, no listener is started and the
\* supervisor returns an error.
C11_BuildBeforeCreate ==
    /\ containers # <<>> => sup.built = Funcs
    /\ \A c \in ContainerIds :
          \E i \in sup.built : containers[c].image = functions[i].imageName
    /\ sup.failed # {} =>
          /\ pc = "idle" /\ calls = <<>>
          /\ sup.listener = "none"
          /\ sup.pc = "returned" => sup.err # "nil"

\* The supervisor has runtime.Start's result in hand.
ReconcileReturned ==
    /\ pc = "idle"
    /\ calls # <<>>
    /\ sup.pc # "in_start"

\* C12: when runtime.Start has returned an error to the supervisor, the
\* supervisor returns that error and has started no listener.
C12_ReconcileErrorPropagated ==
    (ReconcileReturned /\ calls[1] = [op |-> "Start", err |-> "engine"]) =>
        /\ sup.pc = "returned"
        /\ sup.err = "engine"
        /\ sup.listener = "none"

\* The listener phase of the shutdown is over.
ListenerPhaseOver == sup.listener = "closed"

\* runtime.Stop has been called.
StopReached ==
    \/ pc = "Stop_loop"
    \/ \E k \in 1 .. Len(calls) : calls[k].op = "Stop"

\* C13: the containers are stopped only after the listener has been closed,
\* and once the listener phase is over (the grace period expired or not)
\* runtime.Stop is reached: the supervisor does not return without it.
C13_StopAfterListener ==
    /\ StopReached => ListenerPhaseOver
    /\ (ListenerPhaseOver /\ sup.pc = "returned") => StopReached

====
